---- MODULE Spec2Model ----
(***************************************************************************)
(* The HTMLModernizer panel (src/check_files.sh, lines 44-218): a React    *)
(* component holding the source text, the improvement catalog, the         *)
(* selection object and the improved document, with two asynchronous       *)
(* provider calls (/api/analyze and /api/apply-improvements).              *)
(*                                                                         *)
(* Text is a sequence of one-character strings.  An improvement record is  *)
(* [id, original_code, improved_code]; the display-only fields (category,  *)
(* priority, explanation, suggestion) play no part in any transition.      *)
(***************************************************************************)
EXTENDS Integers, Sequences, FiniteSets, Bags, TLC

VARIABLES html, improvements, selectedImprovements, isAnalyzing, improvedHtml,
          analyzeReqs, applyReqs, pair

\* the stray script (src/Untitled-2.js): the form's input values, userData,
\* the last value validateForm returned and the modals it opened; the
\* notifications list, the notification divs in the body and the pending
\* removal timers
VARIABLES name, email, phone, userData, returned, modals,
          notifications, notifDivs, timers

panelVars == <<html, improvements, selectedImprovements, isAnalyzing, improvedHtml,
               analyzeReqs, applyReqs, pair>>

formVars == <<name, email, phone, userData, returned, modals>>

notifyVars == <<notifications, notifDivs, timers>>

vars == <<panelVars, formVars, notifyVars>>

----------------------------------------------------------------------------
(* Bounds *)

\* most apply requests outstanding at once
MaxApplyInFlight == 2

----------------------------------------------------------------------------
(* Texts and records *)

\* the texts the user types into the textarea
Docs == { <<>>, <<"a">> }

Rec(id, from, to) == [id |-> id, original_code |-> from, improved_code |-> to]

\* provider catalogs.  CatalogChain: r1 and "1" target the same occurrence,
\* "1" (an integer-like id) leaves two occurrences of it, and r2 targets the
\* text r1 produces.  CatalogDuplicate: one id given to two records.
CatalogChain == << Rec("r1", <<"a">>, <<"b">>), Rec("1", <<"a">>, <<"a", "a">>),
                   Rec("r2", <<"b">>, <<"c">>) >>
CatalogDuplicate == << Rec("r1", <<"a">>, <<"b">>), Rec("r1", <<"b">>, <<"c">>) >>

Catalogs == { CatalogChain, CatalogDuplicate }

\* the three values the improvements state can hold
Null == [tag |-> "null", items |-> <<>>]
Undefined == [tag |-> "undefined", items |-> <<>>]
Array(c) == [tag |-> "array", items |-> c]

\* bodies /api/analyze can answer with: an improvements list, or none
AnalyzeBodies == { [hasImprovements |-> TRUE, improvements |-> c] : c \in Catalogs }
                 \cup { [hasImprovements |-> FALSE, improvements |-> <<>>] }

----------------------------------------------------------------------------
(* JavaScript object with ordered keys: a sequence of [key, value] *)

\* keys that are canonical array indices, and their numeric value
IndexKeys == { "1" }
KeyNum(k) == IF k = "1" THEN 1 ELSE 0

Keys(obj) == { obj[i].key : i \in DOMAIN obj }

HasKey(obj, k) == k \in Keys(obj)

\* position at which a new key is enumerated: integer-like keys ascending
\* first, then string keys in insertion order
InsertPos(obj, k) ==
    IF k \in IndexKeys
    THEN 1 + Cardinality({ i \in DOMAIN obj :
                             obj[i].key \in IndexKeys /\ KeyNum(obj[i].key) < KeyNum(k) })
    ELSE Len(obj) + 1

ObjectSet(obj, k, v) ==
    LET p == InsertPos(obj, k)
    IN  SubSeq(obj, 1, p - 1) \o << [key |-> k, value |-> v] >> \o SubSeq(obj, p, Len(obj))

ObjectDelete(obj, k) == SelectSeq(obj, LAMBDA e : e.key # k)

ObjectValues(obj) == [ i \in DOMAIN obj |-> obj[i].value ]

----------------------------------------------------------------------------
(* Text substitution *)

\* 1-based position of the first occurrence of pat in text, 0 when absent
IndexOf(text, pat) ==
    LET hits == { i \in 1..(Len(text) - Len(pat) + 1) :
                    SubSeq(text, i, i + Len(pat) - 1) = pat }
    IN  IF hits = {} THEN 0 ELSE CHOOSE i \in hits : \A j \in hits : i <= j

ReplaceFirst(text, pat, rep) ==
    LET i == IndexOf(text, pat)
    IN  IF i = 0 THEN text
        ELSE SubSeq(text, 1, i - 1) \o rep \o SubSeq(text, i + Len(pat), Len(text))

\* the reduction of section 4.2 over the records in the order given
RECURSIVE ApplyReduce(_, _)
ApplyReduce(text, recs) ==
    IF recs = <<>> THEN text
    ELSE ApplyReduce(ReplaceFirst(text, Head(recs).original_code, Head(recs).improved_code),
                     Tail(recs))

\* what /api/apply-improvements answers to a request body
ApplyProvider(body) == ApplyReduce(body.html, body.improvements)

----------------------------------------------------------------------------
(* Component state and rendering *)

\* srcDoc of the Original iframe
OriginalDoc == html

\* srcDoc of the Improved iframe: improvedHtml || html
ImprovedDoc == IF improvedHtml # <<>> THEN improvedHtml ELSE html

ApplyBody_Patch(h, sel) == [html |-> ImprovedDoc, improvements |-> ObjectValues(sel)]

\* the body applyImprovements posts for source text h and selection sel
ApplyBody(h, sel) == [html |-> h, improvements |-> ObjectValues(sel)]

AnalyzeDisabled_IgnoresFlag == html = <<>>

\* the Analyze button's disabled attribute: !html || isAnalyzing
AnalyzeDisabled == html = <<>> \/ isAnalyzing

\* ids of the cards rendered from the improvements state
CardIds == { improvements.items[i].id : i \in DOMAIN improvements.items }

\* first record of the catalog carrying the id
Get(catalog, id) ==
    catalog[CHOOSE i \in DOMAIN catalog :
              /\ catalog[i].id = id
              /\ \A j \in DOMAIN catalog : catalog[j].id = id => i <= j]

\* toggle(catalog, selection, id) of section 4.2
toggle(catalog, selection, id) ==
    IF HasKey(selection, id)
    THEN [selection |-> ObjectDelete(selection, id), error |-> "none"]
    ELSE IF \E i \in DOMAIN catalog : catalog[i].id = id
         THEN [selection |-> ObjectSet(selection, id, Get(catalog, id)), error |-> "none"]
         ELSE [selection |-> selection, error |-> "UnknownImprovementError"]

\* the effect on selectedImprovements: post an apply request unless empty
UseEffect(sel) ==
    IF Len(sel) > 0 THEN applyReqs (+) SetToBag({ApplyBody(html, sel)}) ELSE applyReqs

RemoveAt(s, i) == SubSeq(s, 1, i - 1) \o SubSeq(s, i + 1, Len(s))

\* history of the last toggle pair: the state before an id was toggled on
NoPair == [phase |-> "none", id |-> "", selection |-> <<>>, doc |-> <<>>]

PairAfterToggle(id) ==
    IF ~HasKey(selectedImprovements, id) /\ applyReqs = EmptyBag
    THEN [phase |-> "on", id |-> id, selection |-> selectedImprovements, doc |-> ImprovedDoc]
    ELSE IF HasKey(selectedImprovements, id) /\ pair.phase = "on" /\ pair.id = id
         THEN [pair EXCEPT !.phase = "off"]
         ELSE NoPair

PanelInit ==
    /\ html = <<>>
    /\ improvements = Null
    /\ selectedImprovements = <<>>
    /\ isAnalyzing = FALSE
    /\ improvedHtml = <<>>
    /\ analyzeReqs = <<>>
    /\ applyReqs = EmptyBag
    /\ pair = NoPair

\* textarea onChange
SetHtml(text) ==
    /\ text # html
    /\ html' = text
    /\ pair' = NoPair
    /\ UNCHANGED <<improvements, selectedImprovements, isAnalyzing, improvedHtml,
                   analyzeReqs, applyReqs>>

\* click on the Analyze button: analyzeHtml up to the first await
AnalyzeHtml ==
    /\ ~AnalyzeDisabled
    /\ isAnalyzing' = TRUE
    /\ analyzeReqs' = Append(analyzeReqs, [html |-> html])
    /\ pair' = NoPair
    /\ UNCHANGED <<html, improvements, selectedImprovements, improvedHtml, applyReqs>>

\* analyzeHtml after the awaits: the response parsed, data.improvements stored
AnalyzeResolves(i, data) ==
    /\ i \in DOMAIN analyzeReqs
    /\ improvements' = IF data.hasImprovements THEN Array(data.improvements) ELSE Undefined
    /\ isAnalyzing' = FALSE
    /\ analyzeReqs' = RemoveAt(analyzeReqs, i)
    /\ pair' = NoPair
    /\ UNCHANGED <<html, selectedImprovements, improvedHtml, applyReqs>>

AnalyzeRejects_NoFinally(i) ==
    /\ i \in DOMAIN analyzeReqs
    /\ analyzeReqs' = RemoveAt(analyzeReqs, i)
    /\ pair' = NoPair
    /\ UNCHANGED <<html, improvements, selectedImprovements, isAnalyzing, improvedHtml,
                   applyReqs>>

\* analyzeHtml when fetch or response.json() throws: catch, then finally
AnalyzeRejects(i) ==
    /\ i \in DOMAIN analyzeReqs
    /\ isAnalyzing' = FALSE
    /\ analyzeReqs' = RemoveAt(analyzeReqs, i)
    /\ pair' = NoPair
    /\ UNCHANGED <<html, improvements, selectedImprovements, improvedHtml, applyReqs>>

\* click on a card's button, followed by the effect on selectedImprovements
ToggleImprovement(id) ==
    LET t == toggle(improvements.items, selectedImprovements, id)
    IN  /\ id \in CardIds
        /\ Len(t.selection) > 0 => BagCardinality(applyReqs) < MaxApplyInFlight
        /\ selectedImprovements' = t.selection
        /\ applyReqs' = UseEffect(t.selection)
        /\ pair' = PairAfterToggle(id)
        /\ UNCHANGED <<html, improvements, isAnalyzing, improvedHtml, analyzeReqs>>

\* applyImprovements after the awaits: data.improved_html stored
ApplyResolves(req) ==
    /\ BagIn(req, applyReqs)
    /\ improvedHtml' = ApplyProvider(req)
    /\ applyReqs' = applyReqs (-) SetToBag({req})
    /\ UNCHANGED <<html, improvements, selectedImprovements, isAnalyzing, analyzeReqs, pair>>

\* applyImprovements when fetch or response.json() throws: catch
ApplyRejects(req) ==
    /\ BagIn(req, applyReqs)
    /\ applyReqs' = applyReqs (-) SetToBag({req})
    /\ UNCHANGED <<html, improvements, selectedImprovements, isAnalyzing, improvedHtml,
                   analyzeReqs, pair>>

PanelNext ==
    \/ \E text \in Docs : SetHtml(text)
    \/ AnalyzeHtml
    \/ \E i \in DOMAIN analyzeReqs, data \in AnalyzeBodies : AnalyzeResolves(i, data)
    \/ \E i \in DOMAIN analyzeReqs : AnalyzeRejects(i)
    \/ \E id \in CardIds : ToggleImprovement(id)
    \/ \E req \in BagToSet(applyReqs) : ApplyResolves(req)
    \/ \E req \in BagToSet(applyReqs) : ApplyRejects(req)

----------------------------------------------------------------------------
(* The stray script: form validation *)

\* longest name typed into the form
MaxNameLen == 3

\* most modals open at once
MaxModals == 2

\* name.length < 2
MinNameLen == 2

\* phone.length != 10
PhoneLen == 10

RECURSIVE Repeat(_, _)
Repeat(ch, n) == IF n = 0 THEN <<>> ELSE <<ch>> \o Repeat(ch, n - 1)

\* values typed into the three inputs
Names == { Repeat("n", k) : k \in 0..MaxNameLen }
Emails == { <<>>, <<"e">>, <<"@">>, <<"e", "@", "e">> }
Phones == { Repeat("5", k) : k \in {0, PhoneLen - 1, PhoneLen, PhoneLen + 1} }

\* email.includes('@')
Includes(text, ch) == \E i \in DOMAIN text : text[i] = ch

\* userData: null, or the object {name, email, phone}
NullData == [set |-> FALSE, name |-> <<>>, email |-> <<>>, phone |-> <<>>]
Data(n, e, p) == [set |-> TRUE, name |-> n, email |-> e, phone |-> p]

FormInit ==
    /\ name = <<>>
    /\ email = <<>>
    /\ phone = <<>>
    /\ userData = NullData
    /\ returned = "none"
    /\ modals = <<>>

\* the user types into the name, email and phone inputs
SetName(v) ==
    /\ v # name
    /\ name' = v
    /\ UNCHANGED <<email, phone, userData, returned, modals>>

SetEmail(v) ==
    /\ v # email
    /\ email' = v
    /\ UNCHANGED <<name, phone, userData, returned, modals>>

SetPhone(v) ==
    /\ v # phone
    /\ phone' = v
    /\ UNCHANGED <<name, email, userData, returned, modals>>

\* showModal(message): a modal div appended to the body
showModal(message) == Append(modals, message)

\* the Close button of a modal: this.parentElement.remove()
CloseModal(i) ==
    /\ i \in DOMAIN modals
    /\ modals' = SubSeq(modals, 1, i - 1) \o SubSeq(modals, i + 1, Len(modals))
    /\ UNCHANGED <<name, email, phone, userData, returned>>

ValidateForm_PhoneAtMost ==
    /\ Len(modals) < MaxModals
    /\ UNCHANGED <<name, email, phone>>
    /\ IF Len(name) < MinNameLen
       THEN modals' = showModal("Name too short!")
            /\ returned' = "false" /\ UNCHANGED userData
       ELSE IF ~Includes(email, "@")
       THEN modals' = showModal("Invalid email!")
            /\ returned' = "false" /\ UNCHANGED userData
       ELSE IF Len(phone) > PhoneLen
       THEN modals' = showModal("Phone must be 10 digits!")
            /\ returned' = "false" /\ UNCHANGED userData
       ELSE userData' = Data(name, email, phone)
            /\ modals' = showModal("Success!")
            /\ returned' = "true"

\* form onsubmit: validateForm()
ValidateForm ==
    /\ Len(modals) < MaxModals
    /\ UNCHANGED <<name, email, phone>>
    /\ IF Len(name) < MinNameLen
       THEN modals' = showModal("Name too short!")
            /\ returned' = "false" /\ UNCHANGED userData
       ELSE IF ~Includes(email, "@")
       THEN modals' = showModal("Invalid email!")
            /\ returned' = "false" /\ UNCHANGED userData
       ELSE IF Len(phone) # PhoneLen
       THEN modals' = showModal("Phone must be 10 digits!")
            /\ returned' = "false" /\ UNCHANGED userData
       ELSE userData' = Data(name, email, phone)
            /\ modals' = showModal("Success!")
            /\ returned' = "true"

FormNext ==
    /\ \/ \E v \in Names : SetName(v)
       \/ \E v \in Emails : SetEmail(v)
       \/ \E v \in Phones : SetPhone(v)
       \/ ValidateForm
       \/ \E i \in DOMAIN modals : CloseModal(i)
    /\ UNCHANGED <<panelVars, notifyVars>>

----------------------------------------------------------------------------
(* The stray script: notifications *)

\* most removal timers pending at once
MaxPending == 4

\* notifDiv.style.top = (notifications.length * 60) + 'px'
NotifSpacing == 60

NotifTexts == { "Added to cart!", "saved", "error" }

NotifyInit ==
    /\ notifications = <<>>
    /\ notifDivs = <<>>
    /\ timers = <<>>

\* the body's notification divs without the first one equal to div
RemoveDiv(divs, div) ==
    IF \E i \in DOMAIN divs : divs[i] = div
    THEN LET i == CHOOSE k \in DOMAIN divs :
                      divs[k] = div /\ \A j \in DOMAIN divs : divs[j] = div => k <= j
         IN  SubSeq(divs, 1, i - 1) \o SubSeq(divs, i + 1, Len(divs))
    ELSE divs

\* Array.prototype.shift / pop: no effect on an empty array
Shift(list) == IF list = <<>> THEN <<>> ELSE Tail(list)
Pop(list) == IF list = <<>> THEN <<>> ELSE SubSeq(list, 1, Len(list) - 1)

\* addNotification(text): push, append the div, arm the removal timer
AddNotification(text) ==
    /\ Len(timers) < MaxPending
    /\ LET div == [text |-> text, top |-> (Len(notifications) + 1) * NotifSpacing]
       IN  /\ notifications' = Append(notifications, text)
           /\ notifDivs' = Append(notifDivs, div)
           /\ timers' = Append(timers, div)

TimerFires_Pop ==
    /\ timers # <<>>
    /\ notifDivs' = RemoveDiv(notifDivs, Head(timers))
    /\ notifications' = Pop(notifications)
    /\ timers' = Tail(timers)

\* the setTimeout callback; timers of one delay fire in the order armed
TimerFires ==
    /\ timers # <<>>
    /\ notifDivs' = RemoveDiv(notifDivs, Head(timers))
    /\ notifications' = Shift(notifications)
    /\ timers' = Tail(timers)

NotifyNext ==
    /\ \/ \E text \in NotifTexts : AddNotification(text)
       \/ TimerFires
    /\ UNCHANGED <<panelVars, formVars>>

----------------------------------------------------------------------------
(* Specifications *)

Init == PanelInit /\ FormInit /\ NotifyInit

Next == PanelNext /\ UNCHANGED <<formVars, notifyVars>>

Spec == Init /\ [][Next]_vars

\* the form alone, and the notifications alone
FormSpec == Init /\ [][FormNext]_vars

NotifySpec == Init /\ [][NotifyNext]_vars

\* the awaited fetch of analyzeHtml settles: it resolves or it throws
AnalyzeSettles ==
    /\ \/ \E i \in DOMAIN analyzeReqs, data \in AnalyzeBodies : AnalyzeResolves(i, data)
       \/ \E i \in DOMAIN analyzeReqs : AnalyzeRejects(i)
    /\ UNCHANGED <<formVars, notifyVars>>

\* every analysis request is answered or fails in the end
FairSpec == Init /\ [][Next]_vars /\ WF_vars(AnalyzeSettles)

TypeOK ==
    /\ html \in Docs
    /\ improvements.tag \in {"null", "undefined", "array"}
    /\ isAnalyzing \in BOOLEAN
    /\ BagCardinality(applyReqs) <= MaxApplyInFlight

----------------------------------------------------------------------------
(* Vocabulary of the properties *)

AllIds == UNION { { c[i].id : i \in DOMAIN c } : c \in Catalogs }

\* the selection object the same entries give when toggled on in another order
RECURSIVE ObjectFrom(_)
ObjectFrom(entries) ==
    IF entries = <<>> THEN <<>>
    ELSE ObjectSet(ObjectFrom(SubSeq(entries, 1, Len(entries) - 1)),
                   entries[Len(entries)].key, entries[Len(entries)].value)

Orders(n) == { p \in [1..n -> 1..n] : \A i, j \in 1..n : p[i] = p[j] => i = j }

Reordered(obj, p) == ObjectFrom([ i \in DOMAIN obj |-> obj[p[i]] ])

\* the document the provider answers for the current text and a selection
DocFor(sel) == ApplyProvider(ApplyBody(html, sel))

\* the requests a step posts
Posted == BagToSet(applyReqs' (-) applyReqs)

\* a step in which a card is toggled on, resp. off
ToggledOn(id) == ToggleImprovement(id) /\ ~HasKey(selectedImprovements, id)
ToggledOff(id) == ToggleImprovement(id) /\ HasKey(selectedImprovements, id)

\* a step in which an analysis response carrying an improvements list lands
AnalysisSucceeds ==
    \E i \in DOMAIN analyzeReqs, data \in AnalyzeBodies :
        data.hasImprovements /\ AnalyzeResolves(i, data)

\* a step in which an analysis fails: the call throws, or the body is malformed
AnalysisFails ==
    \/ \E i \in DOMAIN analyzeReqs : AnalyzeRejects(i)
    \/ \E i \in DOMAIN analyzeReqs, data \in AnalyzeBodies :
           ~data.hasImprovements /\ AnalyzeResolves(i, data)

----------------------------------------------------------------------------
(* Properties *)

\* C1: order independence.  In every reachable state, the document obtained
\* for the current selection is the same whatever the order in which its
\* entries were toggled on.
C1_OrderIndependence ==
    \A p \in Orders(Len(selectedImprovements)) :
        DocFor(Reordered(selectedImprovements, p)) = DocFor(selectedImprovements)

\* C2: toggling an id on and then off again restores the selection, and once
\* the apply requests have settled, the improved document shown before the
\* pair of toggles.
C2_ToggleOnOffNoOp ==
    pair.phase = "off" =>
        /\ selectedImprovements = pair.selection
        /\ applyReqs = EmptyBag => ImprovedDoc = pair.doc

\* C3: empty selection law.  Whenever the selection is empty, the improved
\* document shown equals the original document shown.
C3_EmptySelectionLaw ==
    selectedImprovements = <<>> => ImprovedDoc = OriginalDoc

\* C4: a successful analysis leaves the selection empty and the improved
\* document equal to the original.
C4_AnalysisResets ==
    [][AnalysisSucceeds =>
         selectedImprovements' = <<>> /\ ImprovedDoc' = OriginalDoc']_vars

\* C5: the improved document reflects the current selection.  A response
\* computed from the current text either carries the provider's document for
\* the current selection or is discarded; a response computed for an earlier
\* selection never becomes the improved document.
C5_StaleResponseDiscarded ==
    [][\A req \in BagToSet(applyReqs) :
         (ApplyResolves(req) /\ req.html = html) =>
             \/ improvedHtml' = DocFor(selectedImprovements)
             \/ improvedHtml' = improvedHtml]_vars

\* C6: once a catalog is loaded, the original document shown, and the text
\* an apply request starts from, change only when an analysis succeeds.
C6_OriginalSnapshot ==
    [][(improvements.tag = "array" /\ ~AnalysisSucceeds) =>
         /\ OriginalDoc' = OriginalDoc
         /\ \A req \in Posted : req.html = OriginalDoc]_vars

\* C7: at most one analysis request is outstanding, and while one is, the
\* Analyze click cannot start another.
C7_SingleAnalysis ==
    /\ Len(analyzeReqs) <= 1
    /\ analyzeReqs # <<>> => ~ENABLED AnalyzeHtml

\* C7 witness: a request is outstanding while the text area is non-empty, so
\* that only the analyzing flag keeps the button disabled.
C7_Witness == Len(analyzeReqs) = 1 /\ html # <<>>

\* C8: a failed analysis leaves the catalog and the selection as they were.
C8_FailureKeepsCatalog ==
    [][AnalysisFails =>
         /\ improvements' = improvements
         /\ selectedImprovements' = selectedImprovements]_vars

\* the working text when the record toggled on under id is reached: the
\* current text with the selected records enumerated ahead of it applied
WorkingTextAt(id) ==
    ApplyReduce(html, SubSeq(ObjectValues(selectedImprovements), 1,
                             InsertPos(selectedImprovements, id) - 1))

InCatalogOrder(catalog, ids) ==
    SelectSeq(catalog, LAMBDA r : r.id \in ids /\ r = Get(catalog, r.id))

\* C10: the document of the request a toggle posts is the reduction over the
\* selected records in catalog order, whatever the order of the toggles.
C10_CatalogOrder ==
    [][\A id \in AllIds :
         (ToggleImprovement(id) /\ Keys(selectedImprovements') \subseteq CardIds) =>
             \A req \in Posted :
                 ApplyProvider(req) =
                     ApplyReduce(html, InCatalogOrder(improvements.items,
                                                      Keys(selectedImprovements')))]_vars

C12_UniqueIds ==
    \A i, j \in DOMAIN improvements.items :
        improvements.items[i].id = improvements.items[j].id => i = j

\* C13: apply never fails.  When the request for the current text and
\* selection fails and none is left outstanding, the improved document shown
\* is the original or the document for the current selection, never the
\* document of another selection.
C13_ApplyNeverFails ==
    [][\A req \in BagToSet(applyReqs) :
         (/\ ApplyRejects(req)
          /\ req = ApplyBody(html, selectedImprovements)
          /\ applyReqs' = EmptyBag) =>
             ImprovedDoc' \in { OriginalDoc, DocFor(selectedImprovements) }]_vars

\* C15: last writer wins.  The analysis response that replaces the catalog
\* answers the most recently started request; a response to an earlier
\* request never lands once a newer analysis has been started.
C15_LastWriterWins ==
    [][\A i \in DOMAIN analyzeReqs : \A data \in AnalyzeBodies :
         AnalyzeResolves(i, data) => i = Len(analyzeReqs)]_vars

\* C15 witness: a catalog is active while a newer analysis is outstanding.
C15_Witness == improvements.tag = "array" /\ Len(analyzeReqs) = 1

\* C16: with a catalog loaded, every selected id is the id of one of its
\* records.
C16_SelectionWithinCatalog ==
    improvements.tag = "array" => Keys(selectedImprovements) \subseteq CardIds

\* C17: the analyzing flag is set exactly while an analysis request is
\* outstanding, and it is always cleared again.
C17_FlagTracksRequest ==
    /\ [](isAnalyzing <=> analyzeReqs # <<>>)
    /\ isAnalyzing ~> ~isAnalyzing

\* C17 witness: an analysis has settled with text in the text area, and the
\* button is enabled again.
C17_Witness == improvements.tag # "null" /\ html # <<>> /\ ~AnalyzeDisabled

\* C18: validateForm returns true and assigns userData exactly when the name
\* has at least 2 characters, the email contains '@' and the phone has 10
\* characters; otherwise it returns false and leaves userData unchanged.
C18_ValidateForm ==
    [][ValidateForm =>
         IF Len(name) >= 2 /\ Includes(email, "@") /\ Len(phone) = 10
         THEN returned' = "true" /\ userData' = Data(name, email, phone)
         ELSE returned' = "false" /\ userData' = userData]_vars

\* C18 witness: userData was assigned by a valid submission, and a later
\* submission with an eleven-character phone was refused.
C18_Witness ==
    /\ userData.set /\ Len(userData.phone) = 10
    /\ returned = "false" /\ Len(name) >= 2 /\ Includes(email, "@") /\ Len(phone) = 11

\* C19: the notifications list is as long as the number of removal timers
\* still pending, a firing timer removes exactly the oldest entry, and with
\* no timer pending the list is empty.
C19_NotificationsMatchTimers ==
    /\ [](Len(notifications) = Len(timers))
    /\ [](timers = <<>> => notifications = <<>>)
    /\ [][TimerFires =>
            notifications # <<>> /\ notifications' = Tail(notifications)]_vars

\* C19 witness: of several notifications the oldest has been removed by its
\* timer while a later one is still listed.
C19_Witness ==
    /\ Len(notifications) = 1
    /\ Len(notifDivs) = 1 /\ notifDivs[1].top = 2 * NotifSpacing

====
